---- MODULE Spec2Model ----
(***************************************************************************)
(* Model of the SEP copyediting assistant:                                 *)
(*   - services/gemini_analyzer.py : the response normalizer               *)
(*       (analyze_document, _extract_json, _try_repair_json,               *)
(*        AnalysisResult.__init__) and detect_bibliography_section         *)
(*   - services/document_parser.py : parse_docx, parse_html,                *)
(*       get_document_text and the cleanup of the texts                    *)
(*   - app.py                      : the /analyze and /sample request flows*)
(*                                                                         *)
(* Texts are sequences of atoms.  An atom is one character that the code   *)
(* looks at individually ('{', '}', '[', ']', ':', ',', the quote, the     *)
(* backslash, space, newline, a digit) or an opaque run of characters the  *)
(* code never looks into (a word such as counts, the code fence, the       *)
(* marker <i>).                                                            *)
(***************************************************************************)
EXTENDS Integers, Sequences, FiniteSets, TLC

VARIABLES
    composed,   \* normalizer: what the external model set out to write
    reply,      \* normalizer: response.text of the analysis call (atoms)
    transport,  \* normalizer: "ok", or "fail" when generate_content raises
    npc,        \* normalizer: "call" before analyze_document, "done" after
    outcome     \* normalizer: what analyze_document produced

normVars == <<composed, reply, transport, npc, outcome>>

VARIABLES
    all_paragraphs,     \* parse_docx: the paragraphs of the document, as runs
    dpc,                \* parse_docx: "parse" before the call, "done" after
    bib_index,          \* parse_docx: 0-based index of the heading, -1 if none
    main_text_parts,    \* parse_docx: formatted paragraphs before the heading
    bibliography_parts, \* parse_docx: formatted paragraphs after the heading
    main_text,          \* parse_docx: first returned text
    bibliography_text   \* parse_docx: second returned text

docxVars == <<all_paragraphs, dpc, bib_index, main_text_parts, bibliography_parts,
              main_text, bibliography_text>>

VARIABLES
    raw_text,   \* cleanup: the text before any cleanup
    flavour,    \* cleanup: "docx" (_clean_italic_tags alone) or "html"
    passes,     \* cleanup: how many times the cleanup has been applied
    cleaned,    \* cleanup: the text after the first application
    recleaned   \* cleanup: the text after the second application

cleanVars == <<raw_text, flavour, passes, cleaned, recleaned>>

VARIABLES
    route,              \* request: "analyze" (POST /analyze) or "sample" (GET /sample)
    authenticated,      \* request: session.get('authenticated')
    upload,             \* request: is request.files['document'] there, its filename
    api_key_set,        \* configuration: GOOGLE_API_KEY is not empty
    sample_exists,      \* the sample file is on disk
    apc,                \* where the handler is: "start", "parse", "detect",
                        \*   "analyze", "responded"
    split_texts,        \* what get_document_text returned
    req_bibliography_text, \* the handler's bibliography_text (may be replaced)
    detect_reply,       \* response.text of the classification call
    detected_bib,       \* what detect_bibliography_section returned
    model_calls,        \* the calls made to the external model, in order
    response            \* the HTTP response of the handler

appVars == <<route, authenticated, upload, api_key_set, sample_exists, apc,
             split_texts, req_bibliography_text, detect_reply, detected_bib,
             model_calls, response>>

VARIABLES
    html_doc,           \* parse_html: the block elements of the body, in order
    hpc,                \* parse_html: "parse" before the call, "done" after
    bib_header,         \* parse_html: 0-based index of the heading element, -1 for None
    split_point,        \* parse_html: 0-based index of the block the regex matched, -1 for None
    html_main_text,     \* parse_html: first returned text
    html_bibliography_text  \* parse_html: second returned text

htmlVars == <<html_doc, hpc, bib_header, split_point, html_main_text,
              html_bibliography_text>>

vars == <<normVars, docxVars, cleanVars, appVars, htmlVars>>

(***************************************************************************)
(* Atoms                                                                   *)
(***************************************************************************)
LBRACE == "{"
RBRACE == "}"
LBRACKET == "["
RBRACKET == "]"
COLON == ":"
COMMA == ","
QUOTE == "\""
BACKSLASH == "\\"
SPACE == " "
NEWLINE == "\n"
\* the three-backquote fence marker of a markdown code block
FENCE == "<fence>"
JSONTAG == "json"

Whitespace == {SPACE, NEWLINE}

Digits == {"1", "2", "3", "4", "5", "6", "7", "8", "9"}

DigitValue(d) ==
    CASE d = "1" -> 1 [] d = "2" -> 2 [] d = "3" -> 3 [] d = "4" -> 4
      [] d = "5" -> 5 [] d = "6" -> 6 [] d = "7" -> 7 [] d = "8" -> 8
      [] d = "9" -> 9 [] OTHER -> 0

\* The atom null is the JSON literal; the other words are not JSON literals.
NULLWORD == "null"

\* After a backslash inside a string literal the decoder accepts the
\* characters " \ / b f n r t (and u with four hex digits).  Of the atoms
\* used here these are the quote, the backslash, and the words whose first
\* letter is b, f, n, r or t.
EscapableAtoms ==
    {QUOTE, BACKSLASH, "bibliography_entries", "format_issues", NULLWORD}

(***************************************************************************)
(* Parsed values (what json.loads returns), as uniform records:            *)
(*   t : "dict" | "list" | "str" | "int" | "None"                          *)
(*   n : the number (int)                                                  *)
(*   s : the atoms between the quotes (str)                                *)
(*   k : the member names in textual order (dict)                          *)
(*   e : the elements (list) or the member values (dict)                   *)
(***************************************************************************)
NoneVal == [t |-> "None", n |-> 0, s |-> <<>>, k |-> <<>>, e |-> <<>>]
IntVal(i) == [t |-> "int", n |-> i, s |-> <<>>, k |-> <<>>, e |-> <<>>]
StrVal(atoms) == [t |-> "str", n |-> 0, s |-> atoms, k |-> <<>>, e |-> <<>>]
ListVal(elems) == [t |-> "list", n |-> 0, s |-> <<>>, k |-> <<>>, e |-> elems]
DictVal(keys, vals) == [t |-> "dict", n |-> 0, s |-> <<>>, k |-> keys, e |-> vals]
EmptyDict == DictVal(<<>>, <<>>)
EmptyList == ListVal(<<>>)

\* Python truthiness of a parsed value (the tests `if result_data:`,
\* `if repaired_json:`, `if result.error:`).
Truthy(v) ==
    CASE v.t = "dict" -> Len(v.k) > 0
      [] v.t = "list" -> Len(v.e) > 0
      [] v.t = "str" -> Len(v.s) > 0
      [] v.t = "int" -> v.n # 0
      [] OTHER -> FALSE

\* key in d, for a dict d
HasKey(d, key) == \E i \in 1..Len(d.k) : d.k[i] = <<key>>

\* d[key]: the last member of that name wins
Lookup(d, key) ==
    LET is == {i \in 1..Len(d.k) : d.k[i] = <<key>>}
        last == CHOOSE i \in is : \A j \in is : j <= i
    IN d.e[last]

\* d.get(key, default)
Get(d, key, default) == IF HasKey(d, key) THEN Lookup(d, key) ELSE default

(***************************************************************************)
(* json.loads                                                              *)
(***************************************************************************)
ParseFail == [ok |-> FALSE, pos |-> 0, val |-> NoneVal]
ParseOk(p, v) == [ok |-> TRUE, pos |-> p, val |-> v]

\* first index >= i that is past the end or holds no whitespace
SkipWs(s, i) ==
    LET stops == {j \in i..(Len(s) + 1) : j = Len(s) + 1 \/ s[j] \notin Whitespace}
    IN CHOOSE j \in stops : \A m \in stops : j <= m

RECURSIVE ScanString(_, _)
\* s[j..] continues a string literal; the index of its closing quote, 0 when
\* the literal is unterminated, holds a control character or a bad escape
ScanString(s, j) ==
    IF j > Len(s) THEN 0
    ELSE IF s[j] = QUOTE THEN j
    ELSE IF s[j] = NEWLINE THEN 0
    ELSE IF s[j] = BACKSLASH
         THEN IF j + 1 <= Len(s) /\ s[j + 1] \in EscapableAtoms
              THEN ScanString(s, j + 2)
              ELSE 0
    ELSE ScanString(s, j + 1)

\* s[i] is an opening quote
ParseString(s, i) ==
    LET close == ScanString(s, i + 1)
    IN IF close = 0 THEN ParseFail
       ELSE ParseOk(close + 1, StrVal(SubSeq(s, i + 1, close - 1)))

RECURSIVE ParseNumber(_, _, _)
\* s[i] is a digit; acc is the value of the digits before it
ParseNumber(s, i, acc) ==
    IF i <= Len(s) /\ s[i] \in Digits
    THEN ParseNumber(s, i + 1, acc * 10 + DigitValue(s[i]))
    ELSE ParseOk(i, IntVal(acc))

RECURSIVE ParseValue(_, _), ParseMembers(_, _, _, _), ParseElements(_, _, _)

\* scan_once at index i (no whitespace is skipped here)
ParseValue(s, i) ==
    IF i > Len(s) THEN ParseFail
    ELSE IF s[i] = QUOTE THEN ParseString(s, i)
    ELSE IF s[i] = LBRACE
         THEN LET j == SkipWs(s, i + 1)
              IN IF j <= Len(s) /\ s[j] = RBRACE
                 THEN ParseOk(j + 1, EmptyDict)
                 ELSE ParseMembers(s, j, <<>>, <<>>)
    ELSE IF s[i] = LBRACKET
         THEN LET j == SkipWs(s, i + 1)
              IN IF j <= Len(s) /\ s[j] = RBRACKET
                 THEN ParseOk(j + 1, EmptyList)
                 ELSE ParseElements(s, j, <<>>)
    ELSE IF s[i] \in Digits THEN ParseNumber(s, i, 0)
    ELSE IF s[i] = NULLWORD THEN ParseOk(i + 1, NoneVal)
    ELSE ParseFail

\* JSONObject: a member name is expected at index i
ParseMembers(s, i, keys, vals) ==
    IF i > Len(s) \/ s[i] # QUOTE THEN ParseFail
    ELSE LET key == ParseString(s, i)
         IN IF ~key.ok THEN ParseFail
            ELSE LET c == SkipWs(s, key.pos)
                 IN IF c > Len(s) \/ s[c] # COLON THEN ParseFail
                    ELSE LET v == ParseValue(s, SkipWs(s, c + 1))
                         IN IF ~v.ok THEN ParseFail
                            ELSE LET d == SkipWs(s, v.pos)
                                     keys2 == Append(keys, key.val.s)
                                     vals2 == Append(vals, v.val)
                                 IN IF d > Len(s) THEN ParseFail
                                    ELSE IF s[d] = RBRACE
                                         THEN ParseOk(d + 1, DictVal(keys2, vals2))
                                    ELSE IF s[d] = COMMA
                                         THEN ParseMembers(s, SkipWs(s, d + 1), keys2, vals2)
                                    ELSE ParseFail

\* JSONArray: an element is expected at index i
ParseElements(s, i, elems) ==
    LET v == ParseValue(s, i)
    IN IF ~v.ok THEN ParseFail
       ELSE LET d == SkipWs(s, v.pos)
                elems2 == Append(elems, v.val)
            IN IF d > Len(s) THEN ParseFail
               ELSE IF s[d] = RBRACKET THEN ParseOk(d + 1, ListVal(elems2))
               ELSE IF s[d] = COMMA THEN ParseElements(s, SkipWs(s, d + 1), elems2)
               ELSE ParseFail

\* json.loads(s): ok = FALSE stands for JSONDecodeError
JsonLoads(s) ==
    LET v == ParseValue(s, SkipWs(s, 1))
    IN IF ~v.ok THEN ParseFail
       ELSE IF SkipWs(s, v.pos) # Len(s) + 1 THEN ParseFail
       ELSE v

(***************************************************************************)
(* Python string helpers                                                   *)
(***************************************************************************)
\* text.strip()
Strip(s) ==
    LET keep == {i \in 1..Len(s) : s[i] \notin Whitespace}
    IN IF keep = {} THEN <<>>
       ELSE LET lo == CHOOSE i \in keep : \A j \in keep : i <= j
                hi == CHOOSE i \in keep : \A j \in keep : j <= i
            IN SubSeq(s, lo, hi)

\* text.find(a) as a 1-based index, 0 when a does not occur
Find(s, a) ==
    LET hits == {i \in 1..Len(s) : s[i] = a}
    IN IF hits = {} THEN 0 ELSE CHOOSE i \in hits : \A j \in hits : i <= j

\* index of the last occurrence of a, 0 when a does not occur
RFind(s, a) ==
    LET hits == {i \in 1..Len(s) : s[i] = a}
    IN IF hits = {} THEN 0 ELSE CHOOSE i \in hits : \A j \in hits : j <= i

\* text.count(a)
Count(s, a) == Cardinality({i \in 1..Len(s) : s[i] = a})

\* a * n  (the empty text when n <= 0)
Repeat(a, n) == [i \in 1..(IF n > 0 THEN n ELSE 0) |-> a]

(***************************************************************************)
(* AnalysisResult                                                          *)
(***************************************************************************)
\* len(v) is a TypeError for an int and for None
HasLen(v) == v.t \in {"dict", "list", "str"}

\* number of characters of each atom that may stand inside a string literal
AtomChars(a) ==
    CASE a = "counts" -> 6 [] a = "citations" -> 9
      [] a = "bibliography_entries" -> 20 [] a = "citations_found" -> 15
      [] a = "orphan_citations" -> 16 [] a = "orphan_bibliography" -> 19
      [] a = "format_issues" -> 13 [] a = "error" -> 5
      [] a = "citation" -> 8 [] a = "location" -> 8 [] a = "entry" -> 5
      [] a = "Smith 2020" -> 10 [] a = "p3" -> 2
      [] a = JSONTAG -> 4 [] a = NULLWORD -> 4 [] a = FENCE -> 3
      [] OTHER -> 1

RECURSIVE DecodedChars(_, _)
\* number of characters of the decoded string whose literal holds s[i..]
DecodedChars(s, i) ==
    IF i > Len(s) THEN 0
    ELSE IF s[i] = BACKSLASH THEN AtomChars(s[i + 1]) + DecodedChars(s, i + 2)
    ELSE AtomChars(s[i]) + DecodedChars(s, i + 1)

\* len(v): distinct member names of a dict, elements of a list, characters
\* of a str
PyLen(v) ==
    CASE v.t = "dict" -> Cardinality({v.k[i] : i \in 1..Len(v.k)})
      [] v.t = "list" -> Len(v.e)
      [] OTHER -> DecodedChars(v.s, 1)

\* The fields of an AnalysisResult; exc is "" when __init__ returned and the
\* name of the exception it raised otherwise.
Result(tc, tb, oc, ob, fi, err) ==
    [exc |-> "", total_citations |-> tc, total_bibliography |-> tb,
     orphan_citations |-> oc, orphan_bibliography |-> ob,
     format_issues |-> fi, error |-> err]

Raised(name) ==
    [exc |-> name, total_citations |-> NoneVal, total_bibliography |-> NoneVal,
     orphan_citations |-> NoneVal, orphan_bibliography |-> NoneVal,
     format_issues |-> NoneVal, error |-> NoneVal]

\* a slip that would ignore the legacy citations_found array
TotalCitations_NoLegacy(raw, counts) == Get(counts, "citations", IntVal(0))

\* total_citations: counts.citations, overridden by the length of a
\* top-level citations_found (which must have a length)
TotalCitations(raw, counts) ==
    IF HasKey(raw, "citations_found")
    THEN IntVal(PyLen(Lookup(raw, "citations_found")))
    ELSE Get(counts, "citations", IntVal(0))

\* a slip that would read the wrong member of counts
TotalBibliography_WrongKey(raw, counts) ==
    IF HasKey(raw, "bibliography_entries")
       /\ Lookup(raw, "bibliography_entries").t = "list"
    THEN IntVal(PyLen(Lookup(raw, "bibliography_entries")))
    ELSE Get(counts, "bibliography", IntVal(0))

\* total_bibliography: counts.bibliography_entries, overridden by the length
\* of a top-level bibliography_entries that is a list
TotalBibliography(raw, counts) ==
    IF HasKey(raw, "bibliography_entries")
       /\ Lookup(raw, "bibliography_entries").t = "list"
    THEN IntVal(PyLen(Lookup(raw, "bibliography_entries")))
    ELSE Get(counts, "bibliography_entries", IntVal(0))

\* AnalysisResult.__init__(raw_response)
AnalysisResult(raw) ==
    IF raw.t # "dict" THEN Raised("AttributeError")
    ELSE LET counts == Get(raw, "counts", EmptyDict)
         IN IF counts.t # "dict" THEN Raised("AttributeError")
            ELSE IF HasKey(raw, "citations_found")
                    /\ ~HasLen(Lookup(raw, "citations_found"))
                 THEN Raised("TypeError")
            ELSE Result(TotalCitations(raw, counts),
                        TotalBibliography(raw, counts),
                        Get(raw, "orphan_citations", EmptyList),
                        Get(raw, "orphan_bibliography", EmptyList),
                        Get(raw, "format_issues", EmptyList),
                        Get(raw, "error", NoneVal))

\* the two error results analyze_document builds itself
ParseFailure == StrVal(<<"Failed to parse LLM response as JSON">>)
AnalysisFailed == StrVal(<<"Analysis failed">>)
ErrorResult(msg) ==
    AnalysisResult(DictVal(<<<<"error">>>>, <<msg>>))

(***************************************************************************)
(* GeminiAnalyzer._extract_json                                            *)
(***************************************************************************)
\* the text with a leading fence (with or without the json tag) and a
\* trailing fence removed, stripped before and after
Unfence(text) ==
    LET t0 == Strip(text)
        t1 == IF Len(t0) >= 2 /\ t0[1] = FENCE /\ t0[2] = JSONTAG
              THEN SubSeq(t0, 3, Len(t0))
              ELSE IF Len(t0) >= 1 /\ t0[1] = FENCE
                   THEN SubSeq(t0, 2, Len(t0))
                   ELSE t0
        t2 == IF Len(t1) >= 1 /\ t1[Len(t1)] = FENCE
              THEN SubSeq(t1, 1, Len(t1) - 1)
              ELSE t1
    IN Strip(t2)

\* depth after scanning text[start..i]
Depth(text, start, i) ==
    Count(SubSeq(text, start, i), LBRACE) - Count(SubSeq(text, start, i), RBRACE)

\* the index at which the brace depth first returns to zero, 0 if it never does
MatchingBrace(text, start) ==
    LET zeros == {i \in start..Len(text) : Depth(text, start, i) = 0}
    IN IF zeros = {} THEN 0 ELSE CHOOSE i \in zeros : \A j \in zeros : i <= j

\* returns the parsed value, or None
_extract_json(text) ==
    IF text = <<>> THEN NoneVal
    ELSE LET t == Unfence(text)
             direct == JsonLoads(t)
             start == Find(t, LBRACE)
         IN IF direct.ok THEN direct.val
            ELSE IF start = 0 THEN NoneVal
            ELSE LET close == MatchingBrace(t, start)
                 IN IF close = 0 THEN NoneVal
                    ELSE LET inner == JsonLoads(SubSeq(t, start, close))
                         IN IF inner.ok THEN inner.val ELSE NoneVal

(***************************************************************************)
(* GeminiAnalyzer._try_repair_json                                         *)
(***************************************************************************)
\* the loop of lines 206-211: walking back from the end of the text to the
\* last newline, every quote not preceded by a backslash flips in_string
InString(truncated) ==
    LET nl == RFind(truncated, NEWLINE)
        quotes == {i \in (nl + 1)..Len(truncated) :
                      /\ truncated[i] = QUOTE
                      /\ (i = 1 \/ truncated[i - 1] # BACKSLASH)}
    IN Cardinality(quotes) % 2 = 1

\* the text the third attempt hands to json.loads
CloseOpenStructures(truncated) ==
    LET open_braces == Count(truncated, LBRACE) - Count(truncated, RBRACE)
        open_brackets == Count(truncated, LBRACKET) - Count(truncated, RBRACKET)
    IN (IF InString(truncated) THEN Append(truncated, QUOTE) ELSE truncated)
         \o Repeat(RBRACKET, open_brackets)
         \o Repeat(RBRACE, open_braces)

\* returns the parsed value, or None
_try_repair_json(text) ==
    IF text = <<>> THEN NoneVal
    ELSE LET direct == JsonLoads(text)
             first == Find(text, LBRACE)
             last == RFind(text, RBRACE)
             matched == first # 0 /\ last > first
             greedy == IF matched THEN JsonLoads(SubSeq(text, first, last))
                       ELSE ParseFail
         IN IF direct.ok THEN direct.val
            ELSE IF greedy.ok THEN greedy.val
            ELSE IF first = 0 THEN NoneVal
            ELSE LET closed == JsonLoads(CloseOpenStructures(SubSeq(text, first, Len(text))))
                 IN IF closed.ok THEN closed.val ELSE NoneVal

(***************************************************************************)
(* GeminiAnalyzer.analyze_document                                         *)
(***************************************************************************)
\* What analyze_document does with the reply text.  The result carries
\* exc # "" when an exception leaves analyze_document.  An exception raised
\* by AnalysisResult(...) inside the try body is caught by `except
\* Exception`; one raised inside the JSONDecodeError handler is not.
Normalize(text) ==
    LET extracted == _extract_json(text)
        direct == JsonLoads(text)
        InTry(res) == IF res.exc = "" THEN res ELSE ErrorResult(AnalysisFailed)
    IN IF Truthy(extracted) THEN InTry(AnalysisResult(extracted))
       ELSE IF direct.ok THEN InTry(AnalysisResult(direct.val))
       ELSE LET repaired_json == _try_repair_json(text)
            IN IF Truthy(repaired_json) THEN AnalysisResult(repaired_json)
               ELSE ErrorResult(ParseFailure)

\* analyze_document(main_text, bibliography_text) with the model's behaviour
\* as input: tr = "fail" when generate_content (or response.text) raises
analyze_document(tr, text) ==
    IF tr = "fail" THEN ErrorResult(AnalysisFailed) ELSE Normalize(text)

(***************************************************************************)
(* Replies of the external model                                           *)
(***************************************************************************)
MaxItems == 2       \* findings per array in a reply of the documented shape
MaxLegacy == 3      \* entries of a legacy citations_found array
MaxJunkLen == 3     \* atoms of an arbitrary short reply

\* all sequences over S of length at most n
RECURSIVE SeqsUpTo(_, _)
SeqsUpTo(S, n) ==
    IF n = 0 THEN {<<>>}
    ELSE LET shorter == SeqsUpTo(S, n - 1)
         IN shorter \cup {Append(q, x) : q \in shorter, x \in S}

DigitAtom(i) ==
    CASE i = 1 -> "1" [] i = 2 -> "2" [] i = 3 -> "3" [] i = 4 -> "4"
      [] i = 5 -> "5" [] i = 6 -> "6" [] i = 7 -> "7" [] i = 8 -> "8"
      [] OTHER -> "9"

RECURSIVE Render(_, _), RenderItems(_, _, _, _)
\* JSON text of a value (ints 1..9 only); gap is written after each colon
\* and comma
Render(v, gap) ==
    CASE v.t = "None" -> <<NULLWORD>>
      [] v.t = "int" -> <<DigitAtom(v.n)>>
      [] v.t = "str" -> <<QUOTE>> \o v.s \o <<QUOTE>>
      [] v.t = "list" -> <<LBRACKET>> \o RenderItems(v, 1, gap, FALSE) \o <<RBRACKET>>
      [] OTHER -> <<LBRACE>> \o RenderItems(v, 1, gap, TRUE) \o <<RBRACE>>

RenderItems(v, i, gap, named) ==
    IF i > Len(v.e) THEN <<>>
    ELSE (IF i > 1 THEN <<COMMA>> \o gap ELSE <<>>)
           \o (IF named THEN <<QUOTE>> \o v.k[i] \o <<QUOTE, COLON>> \o gap ELSE <<>>)
           \o Render(v.e[i], gap)
           \o RenderItems(v, i + 1, gap, named)

\* marks a member that the object does not have
Absent == [t |-> "absent", n |-> 0, s |-> <<>>, k |-> <<>>, e |-> <<>>]

\* a dict from a sequence of <<name, value>> pairs, skipping <<name, Absent>>
RECURSIVE Members(_)
Members(pairs) ==
    IF pairs = <<>> THEN EmptyDict
    ELSE LET rest == Members(Tail(pairs))
             p == Head(pairs)
         IN IF p[2].t = "absent" THEN rest
            ELSE DictVal(<<<<p[1]>>>> \o rest.k, <<p[2]>> \o rest.e)

Str1(a) == StrVal(<<a>>)

\* findings
OrphanCitationItems ==
    { Members(<< <<"citation", Str1("Smith 2020")>>, <<"location", Str1("p3")>> >>),
      Members(<< <<"citation", Str1("p3")>> >>) }
OrphanBibliographyItems == { Members(<< <<"entry", Str1("Smith 2020")>> >>) }
FormatIssueItems == { Members(<< <<"entry", Str1("p3")>> >>) }

CountsOf(c, b) ==
    Members(<< <<"citations", IntVal(c)>>, <<"bibliography_entries", IntVal(b)>> >>)

\* replies of the documented shape (spec section 6)
ShapeDocs ==
    { Members(<< <<"counts", CountsOf(c, b)>>,
                 <<"orphan_citations", ListVal(oc)>>,
                 <<"orphan_bibliography", ListVal(ob)>>,
                 <<"format_issues", ListVal(fi)>> >>) :
        c \in {3, 5}, b \in {5, 9},
        oc \in SeqsUpTo(OrphanCitationItems, MaxItems),
        ob \in SeqsUpTo(OrphanBibliographyItems, MaxItems),
        fi \in SeqsUpTo(FormatIssueItems, MaxItems) }

\* objects that leave members out, use the legacy members, or give a member
\* an unexpected type
VariantDocs ==
    { Members(<< <<"counts", cn>>, <<"citations_found", cf>>,
                 <<"bibliography_entries", be>>, <<"orphan_citations", oc>>,
                 <<"error", er>> >>) :
        cn \in {Absent, EmptyDict, CountsOf(3, 5), IntVal(3), NoneVal,
                Members(<< <<"bibliography_entries", IntVal(5)>> >>)},
        cf \in {Absent, IntVal(3), Str1("Smith 2020")}
                 \cup {ListVal(q) : q \in SeqsUpTo({Str1("p3")}, MaxLegacy)},
        be \in {Absent, IntVal(5), ListVal(<<Str1("p3")>>)},
        oc \in {Absent, EmptyList,
                ListVal(<<Members(<< <<"citation", Str1("p3")>> >>)>>)},
        er \in {Absent, NoneVal, Str1("p3")} }

\* how the text of the object is presented in the reply
Wrappers == {"bare", "fence_json", "fence", "fence_json_open", "prose"}
FencedWrappers == {"fence_json", "fence"}

Wrap(w, body) ==
    CASE w = "fence_json" -> <<FENCE, JSONTAG, NEWLINE>> \o body \o <<NEWLINE, FENCE>>
      [] w = "fence" -> <<FENCE>> \o body \o <<FENCE, NEWLINE>>
      [] w = "fence_json_open" -> <<FENCE, JSONTAG, NEWLINE>> \o body
      [] w = "prose" -> <<"p3", SPACE>> \o body \o <<SPACE, "p3">>
      [] OTHER -> body

Gaps == {<<>>, <<SPACE>>, <<NEWLINE, SPACE, SPACE>>}

\* the reply of the repair example of spec section 8, before it was cut off
ExampleDoc ==
    Members(<< <<"counts", CountsOf(3, 5)>>,
               <<"orphan_citations", ListVal(<<
                    Members(<< <<"citation", Str1("Smith 2020")>>,
                               <<"location", Str1("p3")>> >>) >>)>>,
               <<"orphan_bibliography", EmptyList>>,
               <<"format_issues", EmptyList>> >>)

\* the cut-off reply of that example
ExampleReply ==
    <<LBRACE, QUOTE, "counts", QUOTE, COLON,
        LBRACE, QUOTE, "citations", QUOTE, COLON, "3", COMMA,
                QUOTE, "bibliography_entries", QUOTE, COLON, "5", RBRACE, COMMA,
      QUOTE, "orphan_citations", QUOTE, COLON,
        LBRACKET, LBRACE, QUOTE, "citation", QUOTE, COLON, QUOTE, "Smith 2020", QUOTE, COMMA,
                          QUOTE, "location", QUOTE, COLON, QUOTE, "p3">>

\* objects whose text is cut off at every position
CutDocs ==
    { ExampleDoc,
      Members(<< <<"counts", IntVal(3)>>, <<"orphan_citations", EmptyList>> >>),
      Members(<< <<"citations_found", IntVal(3)>> >>),
      Members(<< <<"citations_found", ListVal(<<Str1("p3"), Str1("p3")>>)>>,
                 <<"counts", CountsOf(5, 5)>> >>),
      Members(<< <<"orphan_bibliography", ListVal(<<Str1("p3"),
                     ListVal(<<Str1("Smith 2020")>>)>>)>> >>) }

JunkAtoms == {LBRACE, RBRACE, LBRACKET, RBRACKET, QUOTE, "3", NEWLINE, FENCE, NULLWORD}

Composition(family, doc, wrapper, gap, cut) ==
    [family |-> family, doc |-> doc, wrapper |-> wrapper, gap |-> gap, cut |-> cut]

\* the text of a composition
TextOf(c) ==
    LET whole == Wrap(c.wrapper, Render(c.doc, c.gap))
    IN IF c.cut < 0 THEN whole ELSE SubSeq(whole, 1, c.cut)

Compositions ==
    {Composition("shape", d, w, g, -1) : d \in ShapeDocs, w \in Wrappers, g \in {<<>>, <<SPACE>>}}
    \cup {Composition("variant", d, w, <<>>, -1) : d \in VariantDocs, w \in Wrappers}
    \cup UNION {{Composition("cut", d, w, g, n) :
                    n \in 0..(Len(Wrap(w, Render(d, g))) - 1)} :
                 d \in CutDocs, w \in {"bare", "fence_json"}, g \in Gaps}

NoOutcome == Raised("")

NormIdle ==
    /\ npc = "idle"
    /\ outcome = NoOutcome
    /\ transport = "ok"
    /\ reply = <<>>
    /\ composed = Composition("none", NoneVal, "bare", <<>>, -1)

NormInit ==
    /\ npc = "call"
    /\ outcome = NoOutcome
    /\ \/ /\ transport = "ok"
          /\ reply \in SeqsUpTo(JunkAtoms, MaxJunkLen)
          /\ composed = Composition("junk", NoneVal, "bare", <<>>, -1)
       \/ /\ transport = "ok"
          /\ composed \in Compositions
          /\ reply = TextOf(composed)
       \/ /\ transport = "fail"
          /\ reply = <<>>
          /\ composed = Composition("none", NoneVal, "bare", <<>>, -1)

\* analyze_document is called and returns or raises
Analyze ==
    /\ npc = "call"
    /\ outcome' = analyze_document(transport, reply)
    /\ npc' = "done"
    /\ UNCHANGED <<composed, reply, transport>>
    /\ UNCHANGED <<docxVars, cleanVars, appVars, htmlVars>>

NormNext == Analyze

(***************************************************************************)
(* document_parser.py: _clean_italic_tags and the whitespace cleanup       *)
(***************************************************************************)
ITAL_OPEN == "<i>"
ITAL_CLOSE == "</i>"

RECURSIVE RemovePairs(_, _, _, _)
\* re.sub(first \s* second, '', text) from index i on: matches are taken
\* leftmost first and do not overlap
RemovePairs(text, i, first, second) ==
    IF i > Len(text) THEN <<>>
    ELSE LET j == SkipWs(text, i + 1)
         IN IF text[i] = first /\ j <= Len(text) /\ text[j] = second
            THEN RemovePairs(text, j + 1, first, second)
            ELSE <<text[i]>> \o RemovePairs(text, i + 1, first, second)

\* a slip that would drop the second substitution
_clean_italic_tags_MergeOnly(text) == RemovePairs(text, 1, ITAL_CLOSE, ITAL_OPEN)

_clean_italic_tags(text) ==
    LET merged == RemovePairs(text, 1, ITAL_CLOSE, ITAL_OPEN)
    IN RemovePairs(merged, 1, ITAL_OPEN, ITAL_CLOSE)

RECURSIVE CollapseRuns(_, _, _, _, _)
\* re.sub of a run of at least least atoms a by keep atoms a, from index i on
CollapseRuns(text, i, a, least, keep) ==
    IF i > Len(text) THEN <<>>
    ELSE IF text[i] # a THEN <<text[i]>> \o CollapseRuns(text, i + 1, a, least, keep)
    ELSE LET ends == {j \in i..Len(text) : \A m \in i..j : text[m] = a}
             last == CHOOSE j \in ends : \A m \in ends : m <= j
             run == last - i + 1
         IN (IF run >= least THEN Repeat(a, keep) ELSE Repeat(a, run))
              \o CollapseRuns(text, last + 1, a, least, keep)

\* lines 188-194 of _extract_text_with_formatting, applied to the text that
\* get_text returned
CleanHtmlText(text) ==
    LET t1 == _clean_italic_tags(text)
        t2 == CollapseRuns(t1, 1, NEWLINE, 3, 2)
        t3 == CollapseRuns(t2, 1, SPACE, 1, 1)
    IN Strip(t3)

\* the cleanup of a text stream, by the parser that produced it
PostProcess(fl, text) ==
    IF fl = "html" THEN CleanHtmlText(text) ELSE _clean_italic_tags(text)

(***************************************************************************)
(* document_parser.py: parse_docx                                          *)
(***************************************************************************)
Run(text, italic) == [text |-> text, italic |-> italic]

\* str.lower() on the atoms that have upper-case letters
Lower(a) ==
    CASE a = "Bibliography" -> "bibliography"
      [] a = "REFERENCES" -> "references"
      [] a = "Works Cited" -> "works cited"
      [] OTHER -> a

LowerText(text) == [i \in 1..Len(text) |-> Lower(text[i])]

bib_headings == {<<"bibliography">>, <<"references">>, <<"works cited">>}

RECURSIVE ParaText(_)
\* para.text: the text of the runs, one after the other
ParaText(para) ==
    IF para = <<>> THEN <<>> ELSE Head(para).text \o ParaText(Tail(para))

RECURSIVE ParaFormatted(_)
\* lines 27-35: runs without text are skipped, italic runs get markers
ParaFormatted(para) ==
    IF para = <<>> THEN <<>>
    ELSE LET run == Head(para)
             part == IF run.text = <<>> THEN <<>>
                     ELSE IF run.italic
                          THEN <<ITAL_OPEN>> \o run.text \o <<ITAL_CLOSE>>
                          ELSE run.text
         IN part \o ParaFormatted(Tail(para))

\* all_paragraphs[i][0] and all_paragraphs[i][1] for a 0-based index i
RawText(paras, i) == Strip(ParaText(paras[i + 1]))
FormattedText(paras, i) == ParaFormatted(paras[i + 1])

IsHeading(paras, i) == LowerText(RawText(paras, i)) \in bib_headings

\* a slip that would stop each scan one index early, as range(hi, lo, -1)
\* does when lo is meant to be scanned too
LastHeadingIn_Exclusive(paras, lo, hi) ==
    LET hs == {i \in (lo + 1)..hi : IsHeading(paras, i)}
    IN IF hs = {} THEN -1 ELSE CHOOSE i \in hs : \A j \in hs : j <= i

\* the greatest index in lo..hi that holds a heading, -1 if none does
LastHeadingIn(paras, lo, hi) ==
    LET hs == {i \in lo..hi : IsHeading(paras, i)}
    IN IF hs = {} THEN -1 ELSE CHOOSE i \in hs : \A j \in hs : j <= i

\* a slip that would scan forward and stop at the first heading
FindBibIndex_First(paras) ==
    LET hs == {i \in 0..(Len(paras) - 1) : IsHeading(paras, i)}
    IN IF hs = {} THEN -1 ELSE CHOOSE i \in hs : \A j \in hs : i <= j

\* lines 38-58: the latter half first (indices above len // 2), then the
\* whole document, both from the end
FindBibIndex(paras) ==
    LET n == Len(paras)
        min_search_index == n \div 2
        late == LastHeadingIn(paras, min_search_index + 1, n - 1)
    IN IF late # -1 THEN late ELSE LastHeadingIn(paras, 0, n - 1)

\* [p[1] for p in all_paragraphs[lo:hi]] for 0-based lo, hi
FormattedSlice(paras, lo, hi) ==
    [j \in 1..(IF hi > lo THEN hi - lo ELSE 0) |-> FormattedText(paras, lo + j - 1)]

RECURSIVE JoinBlank(_)
\* '\n\n'.join(parts)
JoinBlank(parts) ==
    IF parts = <<>> THEN <<>>
    ELSE IF Len(parts) = 1 THEN parts[1]
    ELSE parts[1] \o <<NEWLINE, NEWLINE>> \o JoinBlank(Tail(parts))

MainParts(paras, bi) ==
    IF bi # -1 THEN FormattedSlice(paras, 0, bi) ELSE FormattedSlice(paras, 0, Len(paras))

BibliographyParts(paras, bi) ==
    IF bi # -1 THEN FormattedSlice(paras, bi + 1, Len(paras)) ELSE <<>>

\* parse_docx: the two texts it returns
parse_docx(paras) ==
    LET bi == FindBibIndex(paras)
    IN [main_text |-> _clean_italic_tags(JoinBlank(MainParts(paras, bi))),
        bibliography_text |-> _clean_italic_tags(JoinBlank(BibliographyParts(paras, bi)))]

MaxParas == 5       \* paragraphs of a document

ParaKinds ==
    { <<Run(<<"a">>, FALSE)>>,
      <<Run(<<"b">>, TRUE)>>,
      <<Run(<<"Bibliography">>, FALSE)>>,
      <<Run(<<SPACE, "REFERENCES">>, TRUE), Run(<<>>, TRUE), Run(<<SPACE>>, FALSE)>>,
      <<Run(<<"Works Cited">>, FALSE)>>,
      <<Run(<<"Bibliography", SPACE, "a">>, FALSE)>>,
      <<>> }

DocxIdle ==
    /\ dpc = "idle"
    /\ all_paragraphs = <<>>
    /\ bib_index = -1
    /\ main_text_parts = <<>>
    /\ bibliography_parts = <<>>
    /\ main_text = <<>>
    /\ bibliography_text = <<>>

DocxInit ==
    /\ dpc = "parse"
    /\ all_paragraphs \in SeqsUpTo(ParaKinds, MaxParas)
    /\ bib_index = -1
    /\ main_text_parts = <<>>
    /\ bibliography_parts = <<>>
    /\ main_text = <<>>
    /\ bibliography_text = <<>>

\* parse_docx(file_content) on a document with these paragraphs
ParseDocx ==
    /\ dpc = "parse"
    /\ LET bi == FindBibIndex(all_paragraphs)
           mp == MainParts(all_paragraphs, bi)
           bp == BibliographyParts(all_paragraphs, bi)
       IN /\ bib_index' = bi
          /\ main_text_parts' = mp
          /\ bibliography_parts' = bp
          /\ main_text' = parse_docx(all_paragraphs).main_text
          /\ bibliography_text' = parse_docx(all_paragraphs).bibliography_text
    /\ dpc' = "done"
    /\ UNCHANGED all_paragraphs
    /\ UNCHANGED <<normVars, cleanVars, appVars, htmlVars>>

DocxNext == ParseDocx

(***************************************************************************)
(* The cleanup applied to a text, and applied again to its own result      *)
(***************************************************************************)
MaxTextLen == 5     \* atoms of a text handed to the cleanup

TextAtoms == {ITAL_OPEN, ITAL_CLOSE, SPACE, NEWLINE, "a"}

CleanIdle ==
    /\ passes = -1
    /\ raw_text = <<>>
    /\ flavour = "docx"
    /\ cleaned = <<>>
    /\ recleaned = <<>>

CleanInit ==
    /\ passes = 0
    /\ raw_text \in SeqsUpTo(TextAtoms, MaxTextLen)
    /\ flavour \in {"docx", "html"}
    /\ cleaned = <<>>
    /\ recleaned = <<>>

CleanOnce ==
    /\ passes = 0
    /\ cleaned' = PostProcess(flavour, raw_text)
    /\ passes' = 1
    /\ UNCHANGED <<raw_text, flavour, recleaned>>
    /\ UNCHANGED <<normVars, docxVars, appVars, htmlVars>>

CleanAgain ==
    /\ passes = 1
    /\ recleaned' = PostProcess(flavour, cleaned)
    /\ passes' = 2
    /\ UNCHANGED <<raw_text, flavour, cleaned>>
    /\ UNCHANGED <<normVars, docxVars, appVars, htmlVars>>

CleanNext == CleanOnce \/ CleanAgain

(***************************************************************************)
(* document_parser.py: parse_html                                          *)
(*                                                                         *)
(* An HTML document is the sequence of the block elements of its body,     *)
(* written without whitespace between the tags.  A block has a tag and     *)
(* runs of text, italic (<i>, <em>) or not; the tag "p_b" is a <p> whose   *)
(* content is wrapped in one <b>, "p_strong" the same with <strong>.       *)
(***************************************************************************)
Block(tag, runs) == [tag |-> tag, runs |-> runs]

HeadingTags == {"h1", "h2", "h3", "h4", "h5", "h6"}
ParagraphTags == {"p", "p_b", "p_strong"}

\* line 115: the tags in the order the heading is looked for; the three
\* kinds of <p> are one tag
SearchTags == <<HeadingTags, ParagraphTags, {"div"}>>

\* lines 98-99: script, style, meta and link elements are removed
Decompose(doc) == SelectSeq(doc, LAMBDA b : b.tag \notin {"script", "style", "meta", "link"})

\* elem.get_text().strip().lower()
ElemText(block) == LowerText(Strip(ParaText(block.runs)))

\* lines 115-122: the first element, tag by tag and then in document order,
\* whose text is one of the three headings; -1 for None
FindBibHeader(soup) ==
    LET hits(k) == {i \in 0..(Len(soup) - 1) :
                      /\ soup[i + 1].tag \in SearchTags[k]
                      /\ ElemText(soup[i + 1]) \in bib_headings}
        first(k) == CHOOSE i \in hits(k) : \A j \in hits(k) : i <= j
    IN IF hits(1) # {} THEN first(1)
       ELSE IF hits(2) # {} THEN first(2)
       ELSE IF hits(3) # {} THEN first(3)
       ELSE -1

\* \s*Bibliography\s* with re.IGNORECASE, as the whole content of a tag: the
\* content is one run without italics that reads Bibliography
ReadsBibliography(block) ==
    /\ Len(block.runs) = 1
    /\ ~block.runs[1].italic
    /\ ElemText(block) = <<"bibliography">>

\* lines 143-147: does pattern k match at this block
bib_patterns(k, block) ==
    CASE k = 1 -> block.tag \in HeadingTags /\ ReadsBibliography(block)
      [] k = 2 -> block.tag = "p_b" /\ ReadsBibliography(block)
      [] k = 3 -> block.tag = "p_strong" /\ ReadsBibliography(block)

\* lines 149-154: re.search finds the leftmost match of the first pattern
\* that matches at all; -1 for None.  (The offset in str(soup) is never 0,
\* the text starts with <html>, so `if split_point:` is `is not None`.)
FindSplitPoint(soup) ==
    LET hits(k) == {i \in 0..(Len(soup) - 1) : bib_patterns(k, soup[i + 1])}
        first(k) == CHOOSE i \in hits(k) : \A j \in hits(k) : i <= j
    IN IF hits(1) # {} THEN first(1)
       ELSE IF hits(2) # {} THEN first(2)
       ELSE IF hits(3) # {} THEN first(3)
       ELSE -1

RECURSIVE RunStrings(_)
\* lines 175-178: an italic element becomes the string <i>, its content and
\* the string </i>; each is a string of its own in the tree
RunStrings(runs) ==
    IF runs = <<>> THEN <<>>
    ELSE LET run == Head(runs)
             own == IF run.italic
                    THEN <<<<ITAL_OPEN>>>>
                           \o (IF run.text = <<>> THEN <<>> ELSE <<run.text>>)
                           \o <<<<ITAL_CLOSE>>>>
                    ELSE IF run.text = <<>> THEN <<>> ELSE <<run.text>>
         IN own \o RunStrings(Tail(runs))

RECURSIVE AllStrings(_)
\* the strings of the tree, in document order
AllStrings(soup) ==
    IF soup = <<>> THEN <<>>
    ELSE RunStrings(Head(soup).runs) \o AllStrings(Tail(soup))

RECURSIVE JoinLines(_)
\* '\n'.join(strings)
JoinLines(strings) ==
    IF strings = <<>> THEN <<>>
    ELSE IF Len(strings) = 1 THEN strings[1]
    ELSE strings[1] \o <<NEWLINE>> \o JoinLines(Tail(strings))

\* soup.get_text(separator='\n') after the italic elements were replaced
GetText(soup) == JoinLines(AllStrings(soup))

_extract_text_with_formatting(soup) == CleanHtmlText(GetText(soup))

\* line 158: full_html[split_point:], from the start of the match on
BibSoup(soup, sp) == SubSeq(soup, sp + 1, Len(soup))

\* line 157: full_html[:split_point]
MainSoup(soup, sp) == SubSeq(soup, 1, sp)

\* parse_html: the two texts it returns
parse_html(doc) ==
    LET soup == Decompose(doc)
        header == FindBibHeader(soup)
        sp == IF header # -1 THEN FindSplitPoint(soup) ELSE -1
    IN IF sp # -1
       THEN [main_text |-> _extract_text_with_formatting(MainSoup(soup, sp)),
             bibliography_text |-> _extract_text_with_formatting(BibSoup(soup, sp))]
       ELSE [main_text |-> _extract_text_with_formatting(soup),
             bibliography_text |-> <<>>]

MaxBlocks == 4      \* block elements of an HTML document

BlockKinds ==
    { Block("p", <<Run(<<"a">>, FALSE)>>),
      Block("p", <<Run(<<"Smith 2020">>, FALSE), Run(<<"b">>, TRUE)>>),
      Block("h2", <<Run(<<"Bibliography">>, FALSE)>>),
      Block("h2", <<Run(<<"REFERENCES">>, FALSE)>>),
      Block("p", <<Run(<<"Works Cited">>, FALSE)>>),
      Block("p_b", <<Run(<<SPACE, "Bibliography">>, FALSE)>>),
      Block("script", <<Run(<<"a">>, FALSE)>>) }

HtmlIdle ==
    /\ hpc = "idle"
    /\ html_doc = <<>>
    /\ bib_header = -1
    /\ split_point = -1
    /\ html_main_text = <<>>
    /\ html_bibliography_text = <<>>

HtmlInit ==
    /\ hpc = "parse"
    /\ html_doc \in SeqsUpTo(BlockKinds, MaxBlocks)
    /\ bib_header = -1
    /\ split_point = -1
    /\ html_main_text = <<>>
    /\ html_bibliography_text = <<>>

\* parse_html(file_content) on a document with these blocks
ParseHtml ==
    /\ hpc = "parse"
    /\ LET soup == Decompose(html_doc)
           header == FindBibHeader(soup)
       IN /\ bib_header' = header
          /\ split_point' = (IF header # -1 THEN FindSplitPoint(soup) ELSE -1)
    /\ html_main_text' = parse_html(html_doc).main_text
    /\ html_bibliography_text' = parse_html(html_doc).bibliography_text
    /\ hpc' = "done"
    /\ UNCHANGED html_doc
    /\ UNCHANGED <<normVars, docxVars, cleanVars, appVars>>

HtmlNext == ParseHtml

(***************************************************************************)
(* gemini_analyzer.py: detect_bibliography_section                         *)
(***************************************************************************)
SENTINEL == "NO_BIBLIOGRAPHY_FOUND"

\* a slip that would hand the sentinel on as bibliography text
detect_bibliography_section_NoSentinel(tr, text) ==
    IF tr = "fail" THEN NoneVal ELSE StrVal(Strip(text))

\* tr = "fail" when generate_content (or response.text) raises; text is
\* response.text.  Returns a str, or None.
detect_bibliography_section(tr, text) ==
    IF tr = "fail" THEN NoneVal
    ELSE IF Strip(text) = <<SENTINEL>> THEN NoneVal
    ELSE StrVal(Strip(text))

(***************************************************************************)
(* app.py: the /analyze and /sample handlers                               *)
(***************************************************************************)
\* str.lower() on the atoms of file names
LowerName(a) ==
    CASE a = ".DOCX" -> ".docx" [] a = "Paper" -> "paper" [] OTHER -> a

\* filename.lower().endswith(ext)
EndsWith(filename, ext) ==
    Len(filename) > 0 /\ LowerName(filename[Len(filename)]) = ext

\* a slip that would look for the extension anywhere in the name
IsDocx_Anywhere(filename) ==
    \E i \in 1..Len(filename) : LowerName(filename[i]) = ".docx"

\* lines 84-85 of app.py and 229-231 of document_parser.py
IsDocx(filename) == EndsWith(filename, ".docx")
IsHtml(filename) == EndsWith(filename, ".html") \/ EndsWith(filename, ".htm")

Filenames ==
    { <<>>, <<"paper", ".docx">>, <<"Paper", ".DOCX">>, <<"paper", ".html">>,
      <<"paper", ".htm">>, <<"paper", ".pdf">>, <<"paper">>,
      <<"paper", ".docx", ".pdf">> }

SampleName == <<"leibniz-evil", ".docx">>

NoUpload == [present |-> FALSE, filename |-> <<>>]

\* the documents a request may carry
MaxDocParas == 3

DocParaKinds ==
    { <<Run(<<"a">>, FALSE)>>,
      <<Run(<<"Smith 2020">>, TRUE)>>,
      <<Run(<<"Bibliography">>, FALSE)>>,
      <<Run(<<SPACE>>, FALSE)>> }

DocBlockKinds ==
    { Block("p", <<Run(<<"a">>, FALSE)>>),
      Block("p", <<Run(<<"Smith 2020">>, TRUE)>>),
      Block("h2", <<Run(<<"Bibliography">>, FALSE)>>),
      Block("h2", <<Run(<<"REFERENCES">>, FALSE)>>) }

\* the bytes of a file: a Word document, an HTML document, a zip package
\* that is not a Word document, or bytes that are no package at all
DocxFile(paras) == [kind |-> "docx", paras |-> paras, blocks |-> <<>>]
HtmlFile(blocks) == [kind |-> "html", paras |-> <<>>, blocks |-> blocks]
OtherPackage == [kind |-> "package", paras |-> <<>>, blocks |-> <<>>]
PlainBytes == [kind |-> "bytes", paras |-> <<>>, blocks |-> <<>>]

WordFiles == {DocxFile(paras) : paras \in SeqsUpTo(DocParaKinds, MaxDocParas)}
HtmlFiles == {HtmlFile(blocks) : blocks \in SeqsUpTo(DocBlockKinds, MaxDocParas)}

\* the files that may come under a name: HTML under the HTML names, and
\* under any other name a Word document or something that is none
FileContents(filename) ==
    IF IsHtml(filename) THEN HtmlFiles ELSE WordFiles \cup {OtherPackage, PlainBytes}

\* split_texts before and after get_document_text has returned
NoTexts == [done |-> FALSE, main_text |-> <<>>, bibliography_text |-> <<>>]
Returned(texts) ==
    [done |-> TRUE, main_text |-> texts.main_text,
     bibliography_text |-> texts.bibliography_text]

\* replies of the model to the classification call
DetectReplies ==
    { <<SENTINEL>>, <<NEWLINE, SENTINEL, SPACE>>, <<>>, <<SPACE>>,
      <<"Smith 2020">>, <<SENTINEL, SPACE, "Smith 2020">> }

\* replies of the model to the analysis call
AnalysisReplies ==
    { Wrap("fence_json", Render(ExampleDoc, <<SPACE>>)),
      <<LBRACE, RBRACE>>,
      ExampleReply,
      <<LBRACE, QUOTE, "counts", QUOTE, COLON, "3">>,
      <<LBRACE, QUOTE, "error", QUOTE, COLON, QUOTE, "p3", QUOTE, RBRACE>>,
      <<>> }

NoResponse == [status |-> 0, error |-> "", result |-> NoOutcome]
ErrorResponse(status, error) == [status |-> status, error |-> error, result |-> NoOutcome]

DetectCall(full_text) ==
    [op |-> "detect_bibliography_section", main_text |-> full_text,
     bibliography_text |-> <<>>]
AnalyzeCall(mt, bt) ==
    [op |-> "analyze_document", main_text |-> mt, bibliography_text |-> bt]

\* a slip that would ask the model even when the splitter found a bibliography
BibliographyMissing_Always(bt) == TRUE

\* `if not bibliography_text.strip():`
BibliographyMissing(bt) == Strip(bt) = <<>>

AppIdle ==
    /\ apc = "idle"
    /\ route = "analyze"
    /\ authenticated = FALSE
    /\ upload = NoUpload
    /\ api_key_set = FALSE
    /\ sample_exists = FALSE
    /\ split_texts = NoTexts
    /\ req_bibliography_text = <<>>
    /\ detect_reply = <<>>
    /\ detected_bib = NoneVal
    /\ model_calls = <<>>
    /\ response = NoResponse

AppInit ==
    /\ apc = "start"
    /\ route \in {"analyze", "sample"}
    /\ authenticated \in BOOLEAN
    /\ api_key_set \in BOOLEAN
    /\ \/ /\ route = "analyze"
          /\ sample_exists = TRUE
          /\ upload \in {NoUpload} \cup {[present |-> TRUE, filename |-> f] : f \in Filenames}
       \/ /\ route = "sample"
          /\ sample_exists \in BOOLEAN
          /\ upload = NoUpload
    /\ split_texts = NoTexts
    /\ req_bibliography_text = <<>>
    /\ detect_reply = <<>>
    /\ detected_bib = NoneVal
    /\ model_calls = <<>>
    /\ response = NoResponse

Respond(r) ==
    /\ response' = r
    /\ apc' = "responded"

\* analyze(), lines 72-89: the login gate and the checks on the upload
ReceiveAnalyze ==
    /\ apc = "start"
    /\ route = "analyze"
    /\ IF ~authenticated THEN Respond(ErrorResponse(302, "LoginRequired"))
       ELSE IF ~upload.present THEN Respond(ErrorResponse(400, "NoFileUploaded"))
       ELSE IF upload.filename = <<>> THEN Respond(ErrorResponse(400, "NoFileSelected"))
       ELSE IF ~(IsDocx(upload.filename) \/ IsHtml(upload.filename))
            THEN Respond(ErrorResponse(400, "UnsupportedFormat"))
       ELSE apc' = "parse" /\ UNCHANGED response
    /\ UNCHANGED <<route, authenticated, upload, api_key_set, sample_exists,
                   split_texts, req_bibliography_text, detect_reply,
                   detected_bib, model_calls>>
    /\ UNCHANGED <<normVars, docxVars, cleanVars, htmlVars>>

\* load_sample(), lines 127-136
ReceiveSample ==
    /\ apc = "start"
    /\ route = "sample"
    /\ IF ~authenticated THEN Respond(ErrorResponse(302, "LoginRequired"))
       ELSE IF ~sample_exists THEN Respond(ErrorResponse(404, "SampleNotFound"))
       ELSE apc' = "parse" /\ UNCHANGED response
    /\ UNCHANGED <<route, authenticated, upload, api_key_set, sample_exists,
                   split_texts, req_bibliography_text, detect_reply,
                   detected_bib, model_calls>>
    /\ UNCHANGED <<normVars, docxVars, cleanVars, htmlVars>>

\* the response to an exception that leaves the try block: analyze() answers
\* a ValueError with 400 and anything else with 500; load_sample() answers
\* every exception with 500
Caught(exc) ==
    IF route = "analyze"
    THEN IF exc = "ValueError" THEN ErrorResponse(400, "ValueError")
         ELSE ErrorResponse(500, "AnalysisFailed")
    ELSE ErrorResponse(500, "SampleFailed")

\* what a call produced: the two texts, or the exception that left it
Returns(texts) == [exc |-> "", message |-> "", texts |-> Returned(texts)]
Raises(exc, message) == [exc |-> exc, message |-> message, texts |-> NoTexts]

\* Document(BytesIO(file_content)), line 22: a package that is not a Word
\* document raises ValueError, bytes that are no package raise BadZipFile
OpenDocument(file_content) ==
    CASE file_content.kind = "docx" -> Returns(parse_docx(file_content.paras))
      [] file_content.kind = "package" -> Raises("ValueError", "NotAWordFile")
      [] OTHER -> Raises("Exception", "BadZipFile")

\* get_document_text(file_content, filename): dispatch on the extension
get_document_text(file_content, filename) ==
    IF IsDocx(filename) THEN OpenDocument(file_content)
    ELSE IF IsHtml(filename) THEN Returns(parse_html(file_content.blocks))
    ELSE Raises("ValueError", "UnsupportedFormat")

\* line 96 of analyze() and 143 of load_sample(): the texts go on to the
\* bibliography test, an exception goes to the handler
ParseDocument ==
    /\ apc = "parse"
    /\ LET filename == IF route = "analyze" THEN upload.filename ELSE SampleName
           Continue(got) ==
               IF got.exc = ""
               THEN /\ split_texts' = got.texts
                    /\ req_bibliography_text' = got.texts.bibliography_text
                    /\ apc' = IF BibliographyMissing(got.texts.bibliography_text)
                              THEN "detect" ELSE "analyze"
                    /\ UNCHANGED response
               ELSE /\ Respond(Caught(got.exc))
                    /\ UNCHANGED <<split_texts, req_bibliography_text>>
       IN \E file_content \in FileContents(filename) :
              Continue(get_document_text(file_content, filename))
    /\ UNCHANGED <<route, authenticated, upload, api_key_set, sample_exists,
                   detect_reply, detected_bib, model_calls>>
    /\ UNCHANGED <<normVars, docxVars, cleanVars, htmlVars>>

\* lines 99-109 of analyze() and 146-151 of load_sample(): the bibliography
\* text is blank, the model is asked for it
DetectBibliography ==
    /\ apc = "detect"
    /\ IF ~api_key_set
       THEN \* get_analyzer raises ValueError("GOOGLE_API_KEY is required")
            /\ Respond(Caught("ValueError"))
            /\ UNCHANGED <<req_bibliography_text, detect_reply, detected_bib, model_calls>>
       ELSE \E tr \in {"ok", "fail"} :
            \E text \in (IF tr = "ok" THEN DetectReplies ELSE {<<>>}) :
               LET full_text == split_texts.main_text \o <<NEWLINE, NEWLINE>>
                                   \o req_bibliography_text
                   found == detect_bibliography_section(tr, text)
               IN /\ model_calls' = Append(model_calls, DetectCall(full_text))
                  /\ detect_reply' = (IF tr = "ok" THEN text ELSE <<"<no reply>">>)
                  /\ detected_bib' = found
                  /\ IF Truthy(found)
                     THEN /\ req_bibliography_text' = found.s
                          /\ apc' = "analyze"
                          /\ UNCHANGED response
                     ELSE IF route = "analyze"
                     THEN /\ Respond(ErrorResponse(400, "BibliographyNotFound"))
                          /\ UNCHANGED req_bibliography_text
                     ELSE /\ apc' = "analyze"
                          /\ UNCHANGED <<response, req_bibliography_text>>
    /\ UNCHANGED <<route, authenticated, upload, api_key_set, sample_exists, split_texts>>
    /\ UNCHANGED <<normVars, docxVars, cleanVars, htmlVars>>

\* lines 115-118 of analyze() and 157-160 of load_sample(): an exception of
\* analyze_document goes to the handler, a result with an error is answered
\* with 500, any other result with 200
AnalysisResponse(result) ==
    IF result.exc # "" THEN Caught(result.exc)
    ELSE IF Truthy(result.error)
    THEN [status |-> 500, error |-> "ResultError", result |-> result]
    ELSE [status |-> 200, error |-> "", result |-> result]

\* lines 111-118 of analyze() and 153-160 of load_sample()
AnalyzeDocument ==
    /\ apc = "analyze"
    /\ IF ~api_key_set
       THEN /\ Respond(Caught("ValueError"))
            /\ UNCHANGED model_calls
       ELSE \E tr \in {"ok", "fail"} :
            \E text \in (IF tr = "ok" THEN AnalysisReplies ELSE {<<>>}) :
               /\ model_calls' = Append(model_calls,
                     AnalyzeCall(split_texts.main_text, req_bibliography_text))
               /\ Respond(AnalysisResponse(analyze_document(tr, text)))
    /\ UNCHANGED <<route, authenticated, upload, api_key_set, sample_exists,
                   split_texts, req_bibliography_text, detect_reply, detected_bib>>
    /\ UNCHANGED <<normVars, docxVars, cleanVars, htmlVars>>

AppNext ==
    \/ ReceiveAnalyze
    \/ ReceiveSample
    \/ ParseDocument
    \/ DetectBibliography
    \/ AnalyzeDocument

(***************************************************************************)
(* Specifications                                                          *)
(***************************************************************************)
\* one request to /analyze or /sample, from its arrival to its response
Init == AppInit /\ NormIdle /\ DocxIdle /\ CleanIdle /\ HtmlIdle
Next == AppNext
Spec == Init /\ [][Next]_vars

\* one call of analyze_document
InitNorm == NormInit /\ DocxIdle /\ CleanIdle /\ AppIdle /\ HtmlIdle
SpecNorm == InitNorm /\ [][NormNext]_vars

\* one call of parse_docx
InitDocx == DocxInit /\ NormIdle /\ CleanIdle /\ AppIdle /\ HtmlIdle
SpecDocx == InitDocx /\ [][DocxNext]_vars

\* the cleanup, applied twice
InitClean == CleanInit /\ NormIdle /\ DocxIdle /\ AppIdle /\ HtmlIdle
SpecClean == InitClean /\ [][CleanNext]_vars

\* one call of parse_html
InitHtml == HtmlInit /\ NormIdle /\ DocxIdle /\ CleanIdle /\ AppIdle
SpecHtml == InitHtml /\ [][HtmlNext]_vars

(***************************************************************************)
(* Claims about the response normalizer (checked under SpecNorm)           *)
(***************************************************************************)
\* the outcome was built from the parsed reply, not from one of the two
\* error dicts analyze_document makes itself
BuiltFromReply(o) == o.exc = "" /\ o.error \notin {ParseFailure, AnalysisFailed}

RECURSIVE OpenState(_, _, _, _, _)
\* Reading s[i..] as JSON text: the structures left open at the end of s
\* (outermost first), whether s ends inside a string literal, and whether
\* that literal stands where a value is expected (after a colon, or as an
\* array element).  prev is the last atom outside strings and whitespace.
OpenState(s, i, stack, inStr, prev) ==
    IF i > Len(s)
    THEN [stack |-> stack, inStr |-> inStr,
          isValue |-> prev = COLON \/ (stack # <<>> /\ stack[Len(stack)] = LBRACKET)]
    ELSE IF inStr
         THEN IF s[i] = BACKSLASH THEN OpenState(s, i + 2, stack, TRUE, prev)
              ELSE IF s[i] = QUOTE THEN OpenState(s, i + 1, stack, FALSE, QUOTE)
              ELSE OpenState(s, i + 1, stack, TRUE, prev)
    ELSE IF s[i] = QUOTE THEN OpenState(s, i + 1, stack, TRUE, prev)
    ELSE IF s[i] \in {LBRACE, LBRACKET}
         THEN OpenState(s, i + 1, Append(stack, s[i]), FALSE, s[i])
    ELSE IF s[i] \in {RBRACE, RBRACKET} /\ stack # <<>>
         THEN OpenState(s, i + 1, SubSeq(stack, 1, Len(stack) - 1), FALSE, s[i])
    ELSE IF s[i] \in Whitespace THEN OpenState(s, i + 1, stack, FALSE, prev)
    ELSE OpenState(s, i + 1, stack, FALSE, s[i])

\* the reply is the text of an object, cut off inside a string value of an
\* object that is an element of an array that is a member of the top-level
\* object
CutInNestedString ==
    /\ composed.family = "cut"
    /\ composed.wrapper = "bare"
    /\ LET st == OpenState(reply, 1, <<>>, FALSE, "")
       IN st.inStr /\ st.isValue /\ st.stack = <<LBRACE, LBRACKET, LBRACE>>

\* C1: a reply cut off inside an open string inside an object inside an
\* array inside the top-level object is repaired to valid data, and
\* analyze_document returns an outcome built from it with no error and
\* without raising; for the example of the spec the counts are 3 and 5.
C1_RepairOfTruncatedReply ==
    (npc = "done" /\ CutInNestedString) =>
        /\ outcome.exc = ""
        /\ outcome.error = NoneVal
        /\ (reply = ExampleReply =>
               /\ outcome.total_citations = IntVal(3)
               /\ outcome.total_bibliography = IntVal(5))

\* C3: no exception leaves analyze_document, whatever the reply text.
C3_NeverRaises == npc = "done" => outcome.exc = ""

\* C6: a reply of the documented shape inside a leading and a trailing fence
\* gives an outcome with error unset, the three arrays equal in content and
\* order to those of the reply, and the totals equal to the members of counts.
C6_RoundTrip ==
    (npc = "done" /\ composed.family = "shape" /\ composed.wrapper \in FencedWrappers) =>
        LET d == composed.doc
        IN /\ outcome.exc = ""
           /\ outcome.error = NoneVal
           /\ outcome.orphan_citations = Lookup(d, "orphan_citations")
           /\ outcome.orphan_bibliography = Lookup(d, "orphan_bibliography")
           /\ outcome.format_issues = Lookup(d, "format_issues")
           /\ outcome.total_citations = Lookup(Lookup(d, "counts"), "citations")
           /\ outcome.total_bibliography = Lookup(Lookup(d, "counts"), "bibliography_entries")

C6_Witness ==
    /\ npc = "done"
    /\ composed.family = "shape"
    /\ composed.wrapper = "fence_json"
    /\ outcome.exc = ""
    /\ Len(outcome.orphan_citations.e) = 2
    /\ outcome.orphan_citations.e[1] # outcome.orphan_citations.e[2]
    /\ Len(outcome.format_issues.e) = 1
    /\ outcome.total_citations = IntVal(5)
    /\ outcome.total_bibliography = IntVal(9)

\* the text that is left once a fence around the reply is removed is the
\* text of a JSON object
ParsesAsObject(text) ==
    LET p == JsonLoads(Unfence(text)) IN p.ok /\ p.val.t = "dict"

\* C7: every reply that parses as a JSON object, the empty object included,
\* gives an outcome with error unset, with totals 0 where the object has no
\* counts and empty arrays where it has no arrays; never an error outcome.
C7_DefaultMapping ==
    (npc = "done" /\ transport = "ok" /\ ParsesAsObject(reply)) =>
        LET d == JsonLoads(Unfence(reply)).val
        IN /\ outcome.exc = ""
           /\ outcome.error = NoneVal
           /\ (~HasKey(d, "counts") /\ ~HasKey(d, "citations_found")
                  => outcome.total_citations = IntVal(0))
           /\ (~HasKey(d, "counts") /\ ~HasKey(d, "bibliography_entries")
                  => outcome.total_bibliography = IntVal(0))
           /\ (~HasKey(d, "orphan_citations") => outcome.orphan_citations = EmptyList)
           /\ (~HasKey(d, "orphan_bibliography") => outcome.orphan_bibliography = EmptyList)
           /\ (~HasKey(d, "format_issues") => outcome.format_issues = EmptyList)

\* C8: in every outcome built from a parsed reply, total_citations is the
\* length of the top-level citations_found array when the reply has one
\* (whatever counts.citations says), and otherwise, when the reply has no
\* citations_found, counts.citations, or 0 when that is absent.
C8_LegacyShape ==
    (npc = "done" /\ composed.family = "variant" /\ BuiltFromReply(outcome)) =>
        LET d == composed.doc
            cf == Get(d, "citations_found", Absent)
            counts == Get(d, "counts", EmptyDict)
        IN /\ cf.t = "list" => outcome.total_citations = IntVal(Len(cf.e))
           /\ cf.t = "absent" =>
                 outcome.total_citations = Get(counts, "citations", IntVal(0))

C8_Witness ==
    /\ npc = "done"
    /\ composed.family = "variant"
    /\ BuiltFromReply(outcome)
    /\ ~HasKey(composed.doc, "counts")
    /\ HasKey(composed.doc, "citations_found")
    /\ Lookup(composed.doc, "citations_found").t = "list"
    /\ Len(Lookup(composed.doc, "citations_found").e) = 3
    /\ outcome.total_citations = IntVal(3)

\* legacy array and counts.citations both present and different
C8_WitnessOverride ==
    /\ npc = "done"
    /\ composed.family = "variant"
    /\ BuiltFromReply(outcome)
    /\ HasKey(composed.doc, "counts")
    /\ Lookup(composed.doc, "counts") = CountsOf(3, 5)
    /\ HasKey(composed.doc, "citations_found")
    /\ Lookup(composed.doc, "citations_found") = ListVal(<<Str1("p3")>>)
    /\ outcome.total_citations = IntVal(1)

(***************************************************************************)
(* Claims about parse_docx (checked under SpecDocx)                        *)
(***************************************************************************)
NumParas == Len(all_paragraphs)

\* paragraph i (0-based) has the trimmed text Bibliography and lies past the
\* midpoint
BibliographyPastMidpoint(i) ==
    /\ RawText(all_paragraphs, i) = <<"Bibliography">>
    /\ i > NumParas \div 2

\* paragraph i is in neither stream and every paragraph after it is in the
\* bibliography stream: the main stream is made of paragraphs before i, the
\* bibliography stream of exactly the paragraphs after i
SplitsAt(i) ==
    /\ Len(main_text_parts) <= i
    /\ main_text_parts = FormattedSlice(all_paragraphs, 0, Len(main_text_parts))
    /\ bibliography_parts = FormattedSlice(all_paragraphs, i + 1, NumParas)

\* C4 as stated: whenever a paragraph with the trimmed text Bibliography
\* lies past the midpoint, whatever other headings the document has, that
\* paragraph is in neither stream and all later paragraphs are in the
\* bibliography stream.
C4_AsStated ==
    dpc = "done" =>
        \A i \in 0..(NumParas - 1) : BibliographyPastMidpoint(i) => SplitsAt(i)

\* C4 amended: a paragraph with the trimmed text Bibliography that lies past
\* the midpoint and has no recognized heading after it is in neither stream,
\* and all later paragraphs are in the bibliography stream (recognized
\* headings before it change nothing).
C4_LastHeadingSplits ==
    dpc = "done" =>
        \A i \in 0..(NumParas - 1) :
            (/\ BibliographyPastMidpoint(i)
             /\ \A j \in (i + 1)..(NumParas - 1) : ~IsHeading(all_paragraphs, j))
                => SplitsAt(i)

C4_Witness ==
    /\ dpc = "done"
    /\ NumParas = 5
    /\ BibliographyPastMidpoint(3)
    /\ IsHeading(all_paragraphs, 1)
    /\ ~IsHeading(all_paragraphs, 4)
    /\ bib_index = 3
    /\ Len(main_text_parts) = 3
    /\ bibliography_parts = <<FormattedText(all_paragraphs, 4)>>
    /\ bibliography_text # <<>>

\* the text without the italic markers
PlainText(text) == SelectSeq(text, LAMBDA a : a \notin {ITAL_OPEN, ITAL_CLOSE})

\* the text without its spaces
Unspaced(text) == SelectSeq(text, LAMBDA a : a # SPACE)

\* C9: without a recognized heading the bibliography text is empty and the
\* main text holds the text of every paragraph in document order, with
\* consecutive paragraphs separated by a blank line (compared without the
\* markers and without regard to spaces).
C9_NoHeadingKeepsEveryParagraph ==
    (dpc = "done" /\ \A i \in 0..(NumParas - 1) : ~IsHeading(all_paragraphs, i)) =>
        /\ bibliography_text = <<>>
        /\ Unspaced(PlainText(main_text))
             = Unspaced(JoinBlank([i \in 1..NumParas |-> ParaText(all_paragraphs[i])]))

(***************************************************************************)
(* Claims about the cleanup (checked under SpecClean)                      *)
(***************************************************************************)
\* C5: cleaning a text that has been cleaned once yields the same text.
C5_CleanupIdempotent == passes = 2 => recleaned = cleaned

(***************************************************************************)
(* Claims about the request flows (checked under Spec)                     *)
(***************************************************************************)
IsBlank(text) == \A i \in 1..Len(text) : text[i] \in Whitespace

CallsOf(op) == Cardinality({i \in 1..Len(model_calls) : model_calls[i].op = op})

\* the request got through parsing with a blank bibliography stream, with a
\* configured API key, and has been answered
AnsweredAfterBlankSplit ==
    /\ apc = "responded"
    /\ api_key_set
    /\ split_texts.done
    /\ IsBlank(split_texts.bibliography_text)

\* the classification call returned the sentinel
SentinelReturned == Strip(detect_reply) = <<SENTINEL>>

\* exactly one classification call, made before any analysis call
OneClassificationFirst ==
    /\ CallsOf("detect_bibliography_section") = 1
    /\ model_calls[1].op = "detect_bibliography_section"

C2_WitnessSample ==
    /\ AnsweredAfterBlankSplit
    /\ SentinelReturned
    /\ route = "sample"
    /\ Len(model_calls) = 2
    /\ response.status = 200

\* at most two calls, at most one classification call, which is made only
\* for a blank bibliography stream and before the analysis call
CallBudget ==
    /\ Len(model_calls) <= 2
    /\ CallsOf("detect_bibliography_section") <= 1
    /\ CallsOf("analyze_document") <= 1
    /\ \A i \in 1..Len(model_calls) :
          model_calls[i].op = "detect_bibliography_section" =>
             /\ i = 1
             /\ split_texts.done
             /\ IsBlank(split_texts.bibliography_text)

EndsInNoKnownExtension(filename) ==
    /\ filename # <<>>
    /\ LowerName(filename[Len(filename)]) \notin {".docx", ".html", ".htm"}

\* a logged-in /analyze request that carries a selected file of such a name
\* and that the handler has begun to serve
UnsupportedUploadServed ==
    /\ route = "analyze"
    /\ authenticated
    /\ upload.present
    /\ EndsInNoKnownExtension(upload.filename)
    /\ apc # "start"

\* C11: an upload whose file name ends in none of .docx, .html, .htm is
\* answered with the unsupported-format error and the external model is
\* never called for it; and get_document_text raises the unsupported-format
\* error for every such name, whatever the bytes are, so before any parsing.
C11_UnsupportedFormat ==
    (upload.present /\ EndsInNoKnownExtension(upload.filename)) =>
       /\ UnsupportedUploadServed =>
             /\ apc = "responded"
             /\ response = ErrorResponse(400, "UnsupportedFormat")
             /\ model_calls = <<>>
             /\ split_texts = NoTexts
       /\ \A file_content \in FileContents(upload.filename) :
             get_document_text(file_content, upload.filename)
                = Raises("ValueError", "UnsupportedFormat")

\* a name with .docx inside but .pdf at its end has been turned away
C11_Witness ==
    /\ UnsupportedUploadServed
    /\ upload.filename = <<"paper", ".docx", ".pdf">>
    /\ response = ErrorResponse(400, "UnsupportedFormat")

(***************************************************************************)
(* Claims about parse_html (checked under SpecHtml)                        *)
(***************************************************************************)
\* the blocks of the parsed document, read as the paragraphs of a Word
\* document with the same runs
AsParagraphs(doc) == [i \in 1..Len(Decompose(doc)) |-> Decompose(doc)[i].runs]

\* C12: the HTML path recognises no fewer headings than the docx path: when
\* the same blocks, as paragraphs of a Word document, are split at a
\* recognized heading (bibliography, references, works cited) so that the
\* bibliography text is not empty, parse_html returns a bibliography text
\* that is not empty either.
C12_SameHeadingSet ==
    hpc = "done" =>
       (parse_docx(AsParagraphs(html_doc)).bibliography_text # <<>>
           => html_bibliography_text # <<>>)

\* C13: when parse_html has found its split point, the bibliography text is
\* made of the blocks strictly after the heading and the main text of the
\* blocks strictly before it, so the heading is in neither text.
C13_HeadingInNeitherStream ==
    (hpc = "done" /\ split_point # -1) =>
       LET soup == Decompose(html_doc)
           before == SubSeq(soup, 1, split_point)
           after == SubSeq(soup, split_point + 2, Len(soup))
       IN /\ html_main_text = _extract_text_with_formatting(before)
          /\ html_bibliography_text = _extract_text_with_formatting(after)

(***************************************************************************)
(* Claims about the returned texts (checked under SpecDocx)                *)
(***************************************************************************)
\* text holds n atoms a in a row
HasRunOf(text, a, n) ==
    \E i \in 1..(Len(text) - n + 1) : \A j \in i..(i + n - 1) : text[j] = a

\* text holds atom first directly followed by atom second
HasPair(text, first, second) ==
    \E i \in 1..(Len(text) - 1) : text[i] = first /\ text[i + 1] = second

\* the postcondition of the post-processing, on one text
PostProcessed(text) ==
    /\ ~HasRunOf(text, SPACE, 2)
    /\ ~HasRunOf(text, NEWLINE, 3)
    /\ Strip(text) = text
    /\ ~HasPair(text, ITAL_CLOSE, ITAL_OPEN)
    /\ ~HasPair(text, ITAL_OPEN, ITAL_CLOSE)

\* C14: each of the two returned texts has no run of two or more spaces, no
\* run of three or more newlines, no leading or trailing whitespace, no
\* </i><i> and no <i></i>; here for the texts parse_docx returns.
C14_PostProcessed ==
    dpc = "done" => (PostProcessed(main_text) /\ PostProcessed(bibliography_text))

\* the 0-based indices of the paragraphs whose trimmed, lower-cased text is
\* one of the recognized headings
HeadingIndices ==
    {i \in 0..(NumParas - 1) :
        LowerText(Strip(ParaText(all_paragraphs[i + 1]))) \in bib_headings}

\* C15: the split index parse_docx chooses with its two scans (latter half
\* first, then the whole document) is the greatest index of a paragraph that
\* is a recognized heading, and it is "no split" (-1) exactly when there is
\* no such paragraph.
C15_MidpointNeverChangesResult ==
    dpc = "done" =>
       /\ (bib_index = -1) <=> (HeadingIndices = {})
       /\ HeadingIndices # {} =>
             /\ bib_index \in HeadingIndices
             /\ \A i \in HeadingIndices : i <= bib_index

\* a heading in the first half was chosen, none lying after it
C15_Witness ==
    /\ dpc = "done"
    /\ NumParas = MaxParas
    /\ bib_index # -1
    /\ bib_index < NumParas \div 2

====
